---- MODULE Spec2Model ----
(***************************************************************************)
(* The experiment runner experiments/cspn_sac_sb3.py as a state machine.   *)
(* The script is one sequential process; pc is the statement it is about   *)
(* to execute.  Init is the state right after parser.parse_args().  The    *)
(* external libraries (wandb, gym, stable-baselines3) are modelled by      *)
(* what the script asks of them: each call is recorded in `trace`, the     *)
(* tracking service keeps its logins and runs in `wandb`, and the          *)
(* arguments of every model.learn call are kept in `learn_calls`.          *)
(***************************************************************************)
EXTENDS Integers, Sequences, FiniteSets, TLC

\* ---------------------------------------------------------------- bounds
\* --timesteps and --save_interval range over -NegT .. MaxT
MaxT == 3
NegT == 1
\* --seed takes 1 .. MaxSeeds values
MaxSeeds == 2
\* the video trigger is evaluated at the steps 0 .. MaxStep
MaxStep == 6

SeedValues == {1, 2}

\* ------------------------------------------------- argparse defaults used
DefaultLearningStarts == 1000
DefaultBufferSize == 300000
DefaultRepetitions == 3
DefaultNumDist == 3
DefaultNumSums == 3
DefaultRecursSampleSize == 5
DefaultNaiveSampleSize == 50
GradientSaveFreq == 10000
VideoLength == 200
Verbose == 2

\* ------------------------------------------------------- Python helpers
\* An optional argument: <<>> is None, <<v>> is the value v.
None == <<>>
Some(v) == <<v>>
IsNone(o) == Len(o) = 0

\* bool(o) of an optional int: None and 0 are falsy.
TruthyInt(o) == IF IsNone(o) THEN FALSE ELSE o[1] # 0

\* A path is the sequence of its components; "" is the empty sequence.
\* bool(o) of an optional path: None and "" are falsy.
TruthyPath(o) == IF IsNone(o) THEN FALSE ELSE Len(o[1]) > 0

\* os.path.join(a, b) for relative b: joining onto "" gives b.
os_path_join(a, b) == a \o b

\* os.path.exists(p): "" never exists.
os_path_exists(files, p) == Len(p) > 0 /\ p \in files

\* Python's a % b for b # 0: the result has the sign of b.
PyMod(a, b) ==
    IF b > 0 THEN a % b
    ELSE LET r == (-a) % (-b) IN -r

\* ---------------------------------------------------------------- state
VARIABLES
    argv,         \* the namespace as parse_args() returned it (never assigned)
    args,         \* the argparse namespace
    environ,      \* TRUE iff os.environ holds WANDB_API_KEY
    files,        \* the paths that exist in the file system
    pc,           \* the statement about to run, "exit" or "raised"
    error,        \* the exception that ended the script, or "none"
    learn,        \* the script's variable learn (None while unbound)
    i,            \* position of the current seed in args.seed (0 before the loop)
    log_path,     \* the script's variable log_path
    run,          \* the script's variable run: 0 is unbound, else an index into wandb.runs
    env,          \* the script's variable env
    model,        \* the script's variable model
    sac_kwargs,   \* the script's variable sac_kwargs
    callback,     \* the script's variable callback
    wandb,        \* the tracking service: number of logins and the runs
    learn_calls,  \* the arguments of each model.learn call, in order
    trace         \* the library calls made so far, each with the seed position

vars == <<argv, args, environ, files, pc, error, learn, i, log_path, run, env, model,
          sac_kwargs, callback, wandb, learn_calls, trace>>

\* ------------------------------------------------------ the command line
IntArgs == (0 - NegT) .. MaxT

SeedLists == UNION {[1..n -> SeedValues] : n \in 1..MaxSeeds}

LogDirExisting == <<"cspn_rl_experiments">>
LogDirMissing == <<"no_such_dir">>
CheckpointExisting == <<"pretrained.zip">>
CheckpointMissing == <<"no_such_model.zip">>

\* The file system the script starts in.
InitialFiles == {LogDirExisting, CheckpointExisting}

\* The namespace parse_args() returns; the arguments the claims do not
\* vary keep their argparse defaults.
ParsedArgs(seeds, ts, si, lg, mp, mlp, nw, nv) ==
    [seed |-> seeds,
     mlp_actor |-> mlp,
     timesteps |-> ts,
     save_interval |-> si,
     log_interval |-> 4,
     device |-> "cuda",
     proj_name |-> "test_proj",
     run_name |-> "test_run",
     log_dir |-> lg,
     model_path |-> mp,
     no_wandb |-> nw,
     no_video |-> nv,
     ent_coef |-> "0.1",
     learning_rate |-> "3e-4",
     learning_starts |-> DefaultLearningStarts,
     buffer_size |-> DefaultBufferSize,
     joint_fail_prob |-> "0.05",
     repetitions |-> DefaultRepetitions,
     cspn_depth |-> None,
     num_dist |-> DefaultNumDist,
     num_sums |-> DefaultNumSums,
     dropout |-> "0.0",
     no_relu |-> FALSE,
     feat_layers |-> None,
     sum_param_layers |-> None,
     dist_param_layers |-> None,
     objective |-> None,
     recurs_sample_size |-> DefaultRecursSampleSize,
     naive_sample_size |-> DefaultNaiveSampleSize]

NoEnv == [cls |-> "unbound"]
NoModel == [cls |-> "unbound"]
NoKwargs == [env |-> NoEnv]
NoCallback == [cls |-> "unbound"]

Init ==
    /\ \E seeds \in SeedLists, ts \in IntArgs,
          si \in {None} \cup {Some(v) : v \in IntArgs},
          lg \in {<<>>, LogDirExisting, LogDirMissing},
          mp \in {None, Some(<<>>), Some(CheckpointExisting), Some(CheckpointMissing)},
          mlp \in BOOLEAN, nw \in BOOLEAN, nv \in BOOLEAN :
            args = ParsedArgs(seeds, ts, si, lg, mp, mlp, nw, nv)
    /\ argv = args
    /\ environ \in BOOLEAN
    /\ files = InitialFiles
    /\ pc = "default_save_interval"
    /\ error = "none"
    /\ learn = None
    /\ i = 0
    /\ log_path = <<>>
    /\ run = 0
    /\ env = NoEnv
    /\ model = NoModel
    /\ sac_kwargs = NoKwargs
    /\ callback = NoCallback
    /\ wandb = [logins |-> 0, runs |-> <<>>]
    /\ learn_calls = <<>>
    /\ trace = <<>>

\* ------------------------------------------------------- statement order
\* The logger configured after the training loop instead of before it.
Successor_LearnBeforeLogger(p) ==
    CASE p = "default_save_interval" -> "validate_timesteps"
      [] p = "validate_timesteps" -> "validate_paths"
      [] p = "validate_paths" -> "wandb_login"
      [] p = "wandb_login" -> "for_seed"
      [] p = "for_seed" -> "makedirs"
      [] p = "makedirs" -> "wandb_init"
      [] p = "wandb_init" -> "make_vec_env"
      [] p = "make_vec_env" -> "video_recorder"
      [] p = "video_recorder" -> "build_model"
      [] p = "build_model" -> "wandb_callback"
      [] p = "wandb_callback" -> "model_learn"
      [] p = "model_learn" -> "set_logger"
      [] p = "set_logger" -> "run_finish"
      [] p = "run_finish" -> "for_seed"

\* The statement that follows statement p in the script.
Successor(p) ==
    CASE p = "default_save_interval" -> "validate_timesteps"
      [] p = "validate_timesteps" -> "validate_paths"
      [] p = "validate_paths" -> "wandb_login"
      [] p = "wandb_login" -> "for_seed"
      [] p = "for_seed" -> "makedirs"
      [] p = "makedirs" -> "wandb_init"
      [] p = "wandb_init" -> "make_vec_env"
      [] p = "make_vec_env" -> "video_recorder"
      [] p = "video_recorder" -> "build_model"
      [] p = "build_model" -> "wandb_callback"
      [] p = "wandb_callback" -> "set_logger"
      [] p = "set_logger" -> "model_learn"
      [] p = "model_learn" -> "run_finish"
      [] p = "run_finish" -> "for_seed"

Raise(e) ==
    /\ pc' = "raised"
    /\ error' = e

Call(op) == trace' = Append(trace, [op |-> op, i |-> i])

\* ------------------------------------------------------------ validation
\* Lines 74-75: a save_interval that is None or 0 becomes timesteps.
EffectiveSaveInterval(a) ==
    IF ~TruthyInt(a.save_interval) THEN Some(a.timesteps) ELSE a.save_interval

DefaultSaveInterval ==
    /\ pc = "default_save_interval"
    /\ args' = [args EXCEPT !.save_interval = EffectiveSaveInterval(args)]
    /\ pc' = Successor(pc)
    /\ UNCHANGED <<argv, environ, files, error, learn, i, log_path, run, env, model,
                   sac_kwargs, callback, wandb, learn_calls, trace>>

\* Lines 77-80: the flag learn.
LearnFlag(a) == a.timesteps # 0

\* Line 81 left out: only the divisor assertion remains.
TimestepsAssertions_NoLowerBound(a) ==
    IF a.save_interval[1] = 0 THEN "ZeroDivisionError"
    ELSE IF PyMod(a.timesteps, a.save_interval[1]) # 0 THEN "AssertionError"
    ELSE "ok"

\* Line 82 left out: only the lower bound is asserted.
TimestepsAssertions_NoDivisor(a) ==
    IF ~(a.timesteps >= a.save_interval[1]) THEN "AssertionError" ELSE "ok"

\* Lines 81-82: the two assertions, evaluated only when timesteps # 0.
\* "ok", or the exception raised.
TimestepsAssertions(a) ==
    LET ts == a.timesteps
        si == a.save_interval[1]
    IN  IF ~(ts >= si) THEN "AssertionError"
        ELSE IF si = 0 THEN "ZeroDivisionError"
        ELSE IF PyMod(ts, si) # 0 THEN "AssertionError"
        ELSE "ok"

ValidateTimesteps ==
    /\ pc = "validate_timesteps"
    /\ learn' = Some(LearnFlag(args))
    /\ IF args.timesteps = 0 \/ TimestepsAssertions(args) = "ok"
         THEN pc' = Successor(pc) /\ error' = error
         ELSE Raise(TimestepsAssertions(args))
    /\ UNCHANGED <<argv, args, environ, files, i, log_path, run, env, model,
                   sac_kwargs, callback, wandb, learn_calls, trace>>

\* Line 86-87 left out: only --model_path is checked.
PathAssertions_NoLogDir(a, fs) ==
    IF TruthyPath(a.model_path) /\ ~os_path_exists(fs, a.model_path[1])
      THEN "AssertionError"
    ELSE "ok"

\* Lines 84-87: the two path assertions; each is skipped for a falsy path.
PathAssertions(a, fs) ==
    IF TruthyPath(a.model_path) /\ ~os_path_exists(fs, a.model_path[1])
      THEN "AssertionError"
    ELSE IF Len(a.log_dir) > 0 /\ ~os_path_exists(fs, a.log_dir)
      THEN "AssertionError"
    ELSE "ok"

ValidatePaths ==
    /\ pc = "validate_paths"
    /\ IF PathAssertions(args, files) = "ok"
         THEN pc' = Successor(pc) /\ error' = error
         ELSE Raise(PathAssertions(args, files))
    /\ UNCHANGED <<argv, args, environ, files, learn, i, log_path, run, env, model,
                   sac_kwargs, callback, wandb, learn_calls, trace>>

\* ------------------------------------------------------------- tracking
\* Lines 89-92: wandb.login(key=os.environ['WANDB_API_KEY']) unless --no_wandb.
WandbLogin ==
    /\ pc = "wandb_login"
    /\ IF args.no_wandb
         THEN /\ pc' = Successor(pc)
              /\ UNCHANGED <<error, wandb, trace>>
         ELSE IF ~environ
           THEN /\ Raise("KeyError")
                /\ UNCHANGED <<wandb, trace>>
           ELSE /\ wandb' = [wandb EXCEPT !.logins = @ + 1]
                /\ Call("wandb.login")
                /\ pc' = Successor(pc)
                /\ error' = error
    /\ UNCHANGED <<argv, args, environ, files, learn, i, log_path, run, env, model,
                   sac_kwargs, callback, learn_calls>>

\* ------------------------------------------------------------ seed loop
\* The loop variable seed while the loop body runs.
seed == args.seed[i]

\* Lines 94-98: the next seed of args.seed, or the end of the script.
ForSeed ==
    /\ pc = "for_seed"
    /\ IF i < Len(args.seed)
         THEN i' = i + 1 /\ pc' = Successor(pc)
         ELSE i' = i /\ pc' = "exit"
    /\ UNCHANGED <<argv, args, environ, files, error, learn, log_path, run, env, model,
                   sac_kwargs, callback, wandb, learn_calls, trace>>

\* Line 99.
RunNameSeed(a, s) == a.run_name \o "_s" \o ToString(s)

\* utils.non_existing_folder_name(base, name): a folder name that does not
\* exist yet under base.
RECURSIVE FreshName(_, _, _, _)
FreshName(fs, base, name, k) ==
    LET cand == IF k = 0 THEN name ELSE name \o "_" \o ToString(k)
    IN  IF os_path_join(base, <<cand>>) \in fs
          THEN FreshName(fs, base, name, k + 1)
          ELSE cand

non_existing_folder_name(fs, base, name) == FreshName(fs, base, name, 0)

\* Lines 100-101.
LogPath(a, fs, s) ==
    LET base == os_path_join(a.log_dir, <<a.proj_name>>)
    IN  os_path_join(base, <<non_existing_folder_name(fs, base, RunNameSeed(a, s))>>)

\* Lines 102-104.
monitor_path == os_path_join(log_path, <<"monitor">>)
model_path == os_path_join(log_path, <<"models">>)
video_path == os_path_join(log_path, <<"video">>)

\* The directories of one run, lines 105-106.
RunDirs(lp) ==
    {lp, os_path_join(lp, <<"monitor">>), os_path_join(lp, <<"models">>),
     os_path_join(lp, <<"video">>)}

\* os.makedirs also creates the missing parents.
Parents(p) == {SubSeq(p, 1, n) : n \in 1..Len(p)}

\* Lines 99-106.
MakeDirs ==
    /\ pc = "makedirs"
    /\ log_path' = LogPath(args, files, seed)
    /\ files' = files \cup UNION {Parents(d) : d \in RunDirs(log_path')}
    /\ Call("makedirs")
    /\ pc' = Successor(pc)
    /\ UNCHANGED <<argv, args, environ, error, learn, i, run, env, model,
                   sac_kwargs, callback, wandb, learn_calls>>

\* wandb.init(..., reinit=True): a run that is still active is finished,
\* then the new run starts.
WandbInitRuns(runs, a, lp, s) ==
    Append([k \in 1..Len(runs) |-> [runs[k] EXCEPT !.status = "finished"]],
           [dir |-> lp, project |-> a.proj_name, name |-> RunNameSeed(a, s),
            group |-> a.run_name, status |-> "running", config |-> NoKwargs])

\* Lines 108-119.
WandbInit ==
    /\ pc = "wandb_init"
    /\ IF args.no_wandb
         THEN UNCHANGED <<wandb, run, trace>>
         ELSE /\ wandb' = [wandb EXCEPT !.runs = WandbInitRuns(@, args, log_path, seed)]
              /\ run' = Len(wandb.runs) + 1
              /\ Call("wandb.init")
    /\ pc' = Successor(pc)
    /\ UNCHANGED <<argv, args, environ, files, error, learn, i, log_path, env, model,
                   sac_kwargs, callback, learn_calls>>

\* ---------------------------------------------------------- environment
\* Lines 121-131: make_vec_env, with the observation space set to float32.
MakeVecEnv ==
    /\ pc = "make_vec_env"
    /\ env' = [cls |-> "VecEnv", env_id |-> "env_name", n_envs |-> 1,
               monitor_dir |-> monitor_path, dtype |-> "float32"]
    /\ Call("make_vec_env")
    /\ pc' = Successor(pc)
    /\ UNCHANGED <<argv, args, environ, files, error, learn, i, log_path, run, model,
                   sac_kwargs, callback, wandb, learn_calls>>

\* The trigger firing one step before each multiple.
record_video_trigger_OffByOne(a, x) ==
    LET si == a.save_interval[1]
    IN  IF si = 0 THEN "ZeroDivisionError"
        ELSE IF PyMod(x + 1, si) = 0 THEN "True" ELSE "False"

\* Line 135: lambda x: x % args.save_interval == 0, evaluated at step x.
\* "True", "False", or the exception it raises.
record_video_trigger(a, x) ==
    LET si == a.save_interval[1]
    IN  IF si = 0 THEN "ZeroDivisionError"
        ELSE IF PyMod(x, si) = 0 THEN "True" ELSE "False"

\* Lines 132-136.
VideoRecorder ==
    /\ pc = "video_recorder"
    /\ IF args.no_video
         THEN UNCHANGED <<env, trace>>
         ELSE /\ env' = [cls |-> "VecVideoRecorder", venv |-> env,
                         video_folder |-> video_path, video_length |-> VideoLength]
              /\ Call("VecVideoRecorder")
    /\ pc' = Successor(pc)
    /\ UNCHANGED <<argv, args, environ, files, error, learn, i, log_path, run, model,
                   sac_kwargs, callback, wandb, learn_calls>>

\* ---------------------------------------------------------------- model
\* What the checkpoint at --model_path holds.
StoredCspnArgs ==
    [R |-> 5, D |-> Some(2), I |-> 4, S |-> 4, dropout |-> "0.1",
     sum_param_layers |-> Some(<<64>>), dist_param_layers |-> Some(<<64>>),
     cond_layers_inner_act |-> "ReLU", vi_ent_approx_sample_size |-> 10]

StoredModel ==
    [cls |-> "CspnSAC", policy |-> "CspnPolicy", env |-> NoEnv, seed |-> 0,
     verbose |-> 1, ent_coef |-> "auto", learning_starts |-> 100,
     device |-> "cpu", learning_rate |-> "1e-3", buffer_size |-> 1000000,
     cspn |-> StoredCspnArgs, logger |-> None]

\* --mlp_actor tested before --model_path.
ModelBranch_MlpFirst(a) ==
    IF a.mlp_actor THEN "mlp"
    ELSE IF TruthyPath(a.model_path) THEN "load"
    ELSE "cspn"

\* Lines 138, 179: which of the three branches builds the model.
ModelBranch(a) ==
    IF TruthyPath(a.model_path) THEN "load"
    ELSE IF a.mlp_actor THEN "mlp"
    ELSE "cspn"

\* Line 145 active: the learning rate of the command line is set as well.
LoadedModel_LearningRate(a, s, e) ==
    [StoredModel EXCEPT !.env = e, !.seed = s, !.learning_starts = a.learning_starts,
                        !.learning_rate = a.learning_rate]

\* Lines 139-144: CspnSAC.load, then the two attributes set from the script.
LoadedModel(a, s, e) ==
    [StoredModel EXCEPT !.env = e, !.seed = s, !.learning_starts = a.learning_starts]

\* Lines 146-167: sac_kwargs read back from the loaded model.
LoadedKwargs(m) ==
    [env |-> m.env, seed |-> m.seed, verbose |-> m.verbose, ent_coef |-> m.ent_coef,
     learning_starts |-> m.learning_starts, device |-> m.device,
     learning_rate |-> m.learning_rate,
     policy_kwargs |-> [cspn_args |-> m.cspn]]

\* Lines 169-178.
NewKwargs(a, s, e) ==
    [env |-> e, seed |-> s, verbose |-> Verbose, ent_coef |-> a.ent_coef,
     learning_starts |-> a.learning_starts, device |-> a.device,
     learning_rate |-> a.learning_rate, buffer_size |-> a.buffer_size]

\* Lines 182-195.
CspnArgs(a) ==
    [R |-> a.repetitions, D |-> a.cspn_depth, I |-> a.num_dist, S |-> a.num_sums,
     dropout |-> a.dropout, feat_layers |-> a.feat_layers,
     sum_param_layers |-> a.sum_param_layers,
     dist_param_layers |-> a.dist_param_layers,
     cond_layers_inner_act |-> IF a.no_relu THEN "Identity" ELSE "ReLU",
     entropy_objective |-> a.objective,
     recurs_ent_approx_sample_size |-> a.recurs_sample_size,
     naive_ent_approx_sample_size |-> a.naive_sample_size]

\* Lines 196-200.
PolicyKwargs(a) ==
    [joint_failure_prob |-> a.joint_fail_prob, actor_cspn_args |-> CspnArgs(a),
     features_extractor_class |-> "FlattenExtractor"]

\* The keyword arguments the model of this iteration is described by.
SacKwargs(a, s, e) ==
    CASE ModelBranch(a) = "load" -> LoadedKwargs(LoadedModel(a, s, e))
      [] ModelBranch(a) = "mlp" -> NewKwargs(a, s, e)
      [] ModelBranch(a) = "cspn" ->
            NewKwargs(a, s, e) @@ ("policy_kwargs" :> PolicyKwargs(a))

\* Lines 180, 201: a model constructed from keyword arguments.
Constructed(cls, policy, kw) ==
    [cls |-> cls, policy |-> policy, kwargs |-> kw, logger |-> None]

\* Lines 138-202: the model of this iteration.
BuiltModel(a, s, e) ==
    CASE ModelBranch(a) = "load" -> LoadedModel(a, s, e)
      [] ModelBranch(a) = "mlp" ->
            Constructed("EntropyLoggingSAC", "MlpPolicy", SacKwargs(a, s, e))
      [] ModelBranch(a) = "cspn" ->
            Constructed("CspnSAC", "CspnPolicy", SacKwargs(a, s, e))

ModelCall(a) ==
    CASE ModelBranch(a) = "load" -> "CspnSAC.load"
      [] ModelBranch(a) = "mlp" -> "EntropyLoggingSAC"
      [] ModelBranch(a) = "cspn" -> "CspnSAC"

BuildModel ==
    /\ pc = "build_model"
    /\ model' = BuiltModel(args, seed, env)
    /\ sac_kwargs' = SacKwargs(args, seed, env)
    /\ Call(ModelCall(args))
    /\ pc' = Successor(pc)
    /\ UNCHANGED <<argv, args, environ, files, error, learn, i, log_path, run, env,
                   callback, wandb, learn_calls>>

\* ------------------------------------------------- callback, logger, learn
\* Lines 209-214.
WandbCallback(a, mp) ==
    [cls |-> "WandbCallback", gradient_save_freq |-> GradientSaveFreq,
     model_save_path |-> mp, model_save_freq |-> a.save_interval[1],
     verbose |-> Verbose]

NoneCallback == [cls |-> "None"]

\* Lines 204-216.
MakeCallback ==
    /\ pc = "wandb_callback"
    /\ IF args.no_wandb
         THEN /\ callback' = NoneCallback
              /\ UNCHANGED <<wandb, trace, error>>
              /\ pc' = Successor(pc)
         ELSE IF run = 0
           THEN /\ Raise("NameError")
                /\ UNCHANGED <<callback, wandb, trace>>
           ELSE /\ wandb' = [wandb EXCEPT !.runs[run].config = sac_kwargs]
                /\ callback' = WandbCallback(args, model_path)
                /\ trace' = trace \o <<[op |-> "run.config.update", i |-> i],
                                       [op |-> "WandbCallback", i |-> i]>>
                /\ pc' = Successor(pc)
                /\ error' = error
    /\ UNCHANGED <<argv, args, environ, files, learn, i, log_path, run, env, model,
                   sac_kwargs, learn_calls>>

\* Lines 218-227: the logger is configured on log_path and given to the model.
SetLogger ==
    /\ pc = "set_logger"
    /\ model' = [model EXCEPT !.logger = Some(log_path)]
    /\ Call("set_logger")
    /\ pc' = Successor(pc)
    /\ UNCHANGED <<argv, args, environ, files, error, learn, i, log_path, run, env,
                   sac_kwargs, callback, wandb, learn_calls>>

\* Line 233.
ResetNumTimesteps(a) == ~TruthyPath(a.model_path)

\* Lines 230-236: the arguments of model.learn.
LearnArgs(a, cb) ==
    [total_timesteps |-> a.timesteps, log_interval |-> a.log_interval,
     reset_num_timesteps |-> ResetNumTimesteps(a), callback |-> cb]

\* Lines 229-236: model.learn is called whatever the value of learn.
ModelLearn ==
    /\ pc = "model_learn"
    /\ learn_calls' = Append(learn_calls,
            [i |-> i, seed |-> seed, model |-> model, args |-> LearnArgs(args, callback)])
    /\ Call("model.learn")
    /\ pc' = Successor(pc)
    /\ UNCHANGED <<argv, args, environ, files, error, learn, i, log_path, run, env, model,
                   sac_kwargs, callback, wandb>>

\* Line 237: run.finish(), outside any test of args.no_wandb.  The name
\* run is bound only by line 109.
RunFinish ==
    /\ pc = "run_finish"
    /\ IF run = 0
         THEN /\ Raise("NameError")
              /\ UNCHANGED <<wandb, trace>>
         ELSE /\ wandb' = [wandb EXCEPT !.runs[run].status = "finished"]
              /\ Call("run.finish")
              /\ pc' = Successor(pc)
              /\ error' = error
    /\ UNCHANGED <<argv, args, environ, files, learn, i, log_path, run, env, model,
                   sac_kwargs, callback, learn_calls>>

Next ==
    \/ DefaultSaveInterval
    \/ ValidateTimesteps
    \/ ValidatePaths
    \/ WandbLogin
    \/ ForSeed
    \/ MakeDirs
    \/ WandbInit
    \/ MakeVecEnv
    \/ VideoRecorder
    \/ BuildModel
    \/ MakeCallback
    \/ SetLogger
    \/ ModelLearn
    \/ RunFinish

Spec == Init /\ [][Next]_vars

\* =============================================================== claims
\* ------------------------------------------------------------ vocabulary
Abs(n) == IF n < 0 THEN 0 - n ELSE n

\* n is a multiple of d: n = k * d for an integer k, d not zero.
IsMultiple(n, d) == d # 0 /\ \E k \in (0 - Abs(n)) .. Abs(n) : n = k * d

Steps == 0 .. MaxStep

\* The save_interval in force once line 75 has run.
save_interval == args.save_interval[1]

Defaulted == pc # "default_save_interval"
TimestepsChecked == pc \notin {"default_save_interval", "validate_timesteps"}
PathsChecked == TimestepsChecked /\ pc # "validate_paths"
InLoop == pc \notin {"default_save_interval", "validate_timesteps", "validate_paths",
                     "wandb_login", "raised"}

AssertionAbort == pc = "raised" /\ error = "AssertionError"

\* No seed has been processed and nothing outside the script was touched.
NothingDone ==
    /\ i = 0
    /\ trace = <<>>
    /\ wandb = [logins |-> 0, runs |-> <<>>]
    /\ files = InitialFiles
    /\ env = NoEnv
    /\ model = NoModel
    /\ learn_calls = <<>>

\* timesteps is lower than save_interval or no multiple of it.
BadTimesteps ==
    \/ args.timesteps < save_interval
    \/ ~IsMultiple(args.timesteps, save_interval)

BadLearnCall(c) ==
    \/ c.args.total_timesteps < save_interval
    \/ ~IsMultiple(c.args.total_timesteps, save_interval)

\* ------------------------------------------------------------------- C1
\* C1 as stated: for every configuration, timesteps lower than the
\* effective save_interval, or no multiple of it, aborts the script with
\* an assertion failure before any seed is processed, and model.learn is
\* never called with such a timesteps value.
C1_AnyTimesteps ==
    /\ (TimestepsChecked /\ BadTimesteps) => (AssertionAbort /\ NothingDone)
    /\ \A k \in 1..Len(learn_calls) : ~BadLearnCall(learn_calls[k])

\* C1 amended: the same for every configuration whose timesteps is not 0
\* (line 77 skips both assertions when timesteps is 0); model.learn is
\* never called with a non-zero timesteps value that is lower than
\* save_interval or no multiple of it.
C1_NonZeroTimesteps ==
    /\ (TimestepsChecked /\ args.timesteps # 0 /\ BadTimesteps)
          => (AssertionAbort /\ NothingDone)
    /\ \A k \in 1..Len(learn_calls) :
          learn_calls[k].args.total_timesteps # 0 => ~BadLearnCall(learn_calls[k])

\* A run aborted because timesteps is at least save_interval but no multiple of it.
C1_Witness ==
    /\ AssertionAbort
    /\ args.timesteps > save_interval
    /\ save_interval > 1
    /\ ~IsMultiple(args.timesteps, save_interval)

\* ------------------------------------------------------------------- C2
\* A non-empty --model_path was given; a non-empty --log_dir names the log
\* directory (an empty one stands for the working directory).
ModelPathGiven == TruthyPath(argv.model_path)
MissingPath ==
    \/ ModelPathGiven /\ argv.model_path[1] \notin InitialFiles
    \/ Len(argv.log_dir) > 0 /\ argv.log_dir \notin InitialFiles

\* C2: when the given --model_path or the log directory does not exist,
\* the script aborts with an assertion failure and has by then logged in
\* nowhere, created no directory, built no environment, loaded or
\* constructed no model and called no training loop.
C2_PathValidationFirst ==
    (PathsChecked /\ MissingPath) => (AssertionAbort /\ NothingDone)

\* A run with valid timesteps aborted by a missing log directory.
C2_Witness ==
    /\ AssertionAbort
    /\ learn # None
    /\ (args.timesteps = 0 \/ TimestepsAssertions(args) = "ok")
    /\ ~ModelPathGiven
    /\ argv.log_dir = LogDirMissing

\* ------------------------------------------------------------------- C3
\* The configuration passes the assertions of lines 81-87, and the API key
\* line 92 reads is set when tracking is enabled.
PassesValidation ==
    /\ Defaulted
    /\ args.timesteps = 0 \/ ~BadTimesteps
    /\ ~MissingPath
    /\ args.no_wandb \/ environ

LearnSeeds == [k \in 1..Len(learn_calls) |-> learn_calls[k].seed]

\* C3: every configuration that passes validation, with tracking enabled
\* or disabled, ends normally, with model.learn called exactly once per
\* listed seed, in the order of the list.
C3_EverySeedTrained ==
    (PassesValidation /\ pc \in {"exit", "raised"})
        => (pc = "exit" /\ error = "none" /\ LearnSeeds = args.seed)

\* ------------------------------------------------------------------- C4
\* The calls of seed position k, the bookkeeping of the tracking run aside.
TrackingRunOps == {"wandb.init", "run.config.update", "run.finish"}
ModelOps == {"CspnSAC.load", "EntropyLoggingSAC", "CspnSAC"}

StepName(op) == IF op \in ModelOps THEN "model" ELSE op

StepsOf(k) ==
    LET mine == SelectSeq(trace, LAMBDA t : t.i = k /\ t.op \notin TrackingRunOps)
    IN  [n \in 1..Len(mine) |-> StepName(mine[n].op)]

\* The order the claim fixes.
ClaimedSteps ==
    <<"makedirs", "make_vec_env">>
      \o (IF argv.no_video THEN <<>> ELSE <<"VecVideoRecorder">>)
      \o <<"model">>
      \o (IF argv.no_wandb THEN <<>> ELSE <<"WandbCallback">>)
      \o <<"set_logger", "model.learn">>

\* The environment a model works on.
EnvOf(m) == IF "kwargs" \in DOMAIN m THEN m.kwargs.env ELSE m.env

IsPrefix(a, b) == Len(a) =< Len(b) /\ a = SubSeq(b, 1, Len(a))

\* C4: in each seed iteration the steps run in the claimed order, none
\* reordered, none skipped but the optional ones; when model.learn is
\* called the four run directories exist, the environment is wrapped iff
\* --no_video is not set, and the logger on log_path is attached.
C4_StepOrder ==
    /\ \A k \in 1..i : IsPrefix(StepsOf(k), ClaimedSteps)
    /\ \A k \in 1..(i - 1) : StepsOf(k) = ClaimedSteps
    /\ pc = "run_finish" => StepsOf(i) = ClaimedSteps
    /\ \A k \in 1..Len(learn_calls) :
          /\ learn_calls[k].model.logger # None
          /\ (EnvOf(learn_calls[k].model).cls = "VecVideoRecorder") <=> ~argv.no_video
    /\ (pc = "run_finish" /\ Len(learn_calls) > 0) =>
          /\ RunDirs(log_path) \subseteq files
          /\ learn_calls[Len(learn_calls)].model.logger = Some(log_path)
          /\ learn_calls[Len(learn_calls)].i = i

\* The second seed's training loop has returned, video and tracking on.
C4_Witness ==
    /\ pc = "run_finish"
    /\ i = 2
    /\ ~argv.no_video
    /\ ~argv.no_wandb
    /\ Len(learn_calls) = 2

\* ------------------------------------------------------------------- C5
TrackingOps == {"wandb.login", "wandb.init", "run.config.update", "WandbCallback",
                "run.finish"}

Count(op, k) == Cardinality({n \in 1..Len(trace) : trace[n].op = op /\ trace[n].i = k})
OpenRuns == {r \in 1..Len(wandb.runs) : wandb.runs[r].status = "running"}

\* C5: with --no_wandb nothing of the tracking is done or referenced (no
\* login, no run, no config update, callback None, no run finalisation);
\* without it there is one login, before the first seed, and per seed one
\* run, initialised before training and finalised after it, with never
\* more than one run open.
C5_TrackingOptional ==
    /\ argv.no_wandb =>
          /\ \A n \in 1..Len(trace) : trace[n].op \notin TrackingOps
          /\ wandb = [logins |-> 0, runs |-> <<>>]
          /\ \A k \in 1..Len(learn_calls) : learn_calls[k].args.callback = NoneCallback
          /\ pc # "run_finish"
          /\ error # "NameError"
    /\ ~argv.no_wandb =>
          /\ wandb.logins =< 1
          /\ i > 0 => (wandb.logins = 1 /\ trace[1] = [op |-> "wandb.login", i |-> 0])
          /\ \A k \in 1..i : Count("wandb.init", k) =< 1 /\ Count("run.finish", k) =< 1
          /\ \A n \in 1..Len(trace) :
                /\ trace[n].op = "model.learn" =>
                      \E m \in 1..(n - 1) : trace[m] = [op |-> "wandb.init", i |-> trace[n].i]
                /\ trace[n].op = "run.finish" =>
                      \E m \in 1..(n - 1) : trace[m] = [op |-> "model.learn", i |-> trace[n].i]
          /\ Cardinality(OpenRuns) =< 1

\* ------------------------------------------------------------------- C6
\* C6: an omitted --save_interval makes the effective save_interval equal
\* to --timesteps; the video trigger is true at step x exactly when x is a
\* multiple of the effective save_interval; the tracking callback saves
\* the model with the same period.
C6_SaveCadence ==
    Defaulted =>
      /\ IsNone(argv.save_interval) => save_interval = argv.timesteps
      /\ (~IsNone(argv.save_interval) /\ argv.save_interval[1] # 0)
            => save_interval = argv.save_interval[1]
      /\ \A x \in Steps :
            (record_video_trigger(args, x) = "True") <=> IsMultiple(x, save_interval)
      /\ callback.cls = "WandbCallback" => callback.model_save_freq = save_interval
      /\ \A k \in 1..Len(learn_calls) :
            learn_calls[k].args.callback.cls = "WandbCallback"
              => learn_calls[k].args.callback.model_save_freq = save_interval

\* Trained with video and tracking on an omitted --save_interval.
C6_Witness ==
    /\ pc = "run_finish"
    /\ IsNone(argv.save_interval)
    /\ argv.timesteps > 1
    /\ env.cls = "VecVideoRecorder"
    /\ callback.cls = "WandbCallback"

\* ------------------------------------------------------------------- C7
ModelBuilt == pc \in {"wandb_callback", "set_logger", "model_learn", "run_finish"}

ModelCallsOf(k) == {n \in 1..Len(trace) : trace[n].i = k /\ trace[n].op \in ModelOps}

LastModelOp == trace[CHOOSE n \in ModelCallsOf(i) : TRUE].op

\* C7: each seed iteration obtains exactly one model: by CspnSAC.load iff
\* --model_path is given (whatever --mlp_actor), else an EntropyLoggingSAC
\* with MlpPolicy and no policy_kwargs iff --mlp_actor is set, else a
\* CspnSAC with CspnPolicy whose policy_kwargs carry the CSPN arguments of
\* the command line.
C7_ModelSelection ==
    /\ \A k \in 1..(i - 1) : Cardinality(ModelCallsOf(k)) = 1
    /\ pc \in {"for_seed", "exit"} => \A k \in 1..i : Cardinality(ModelCallsOf(k)) = 1
    /\ pc \in {"makedirs", "wandb_init", "make_vec_env", "video_recorder", "build_model"}
          => ModelCallsOf(i) = {}
    /\ ModelBuilt =>
          /\ Cardinality(ModelCallsOf(i)) = 1
          /\ (LastModelOp = "CspnSAC.load") <=> ModelPathGiven
          /\ ~ModelPathGiven =>
                /\ (LastModelOp = "EntropyLoggingSAC") <=> argv.mlp_actor
                /\ (LastModelOp = "CspnSAC") <=> ~argv.mlp_actor
                /\ argv.mlp_actor =>
                      /\ model.cls = "EntropyLoggingSAC"
                      /\ model.policy = "MlpPolicy"
                      /\ "policy_kwargs" \notin DOMAIN model.kwargs
                /\ ~argv.mlp_actor =>
                      /\ model.cls = "CspnSAC"
                      /\ model.policy = "CspnPolicy"
                      /\ "policy_kwargs" \in DOMAIN model.kwargs
                      /\ model.kwargs.policy_kwargs.actor_cspn_args.R = argv.repetitions
                      /\ model.kwargs.policy_kwargs.actor_cspn_args.D = argv.cspn_depth
                      /\ model.kwargs.policy_kwargs.actor_cspn_args.I = argv.num_dist
                      /\ model.kwargs.policy_kwargs.actor_cspn_args.S = argv.num_sums
                      /\ model.kwargs.policy_kwargs.actor_cspn_args.dropout = argv.dropout

\* A checkpoint was loaded although --mlp_actor is set.
C7_Witness ==
    /\ pc = "set_logger"
    /\ ModelPathGiven
    /\ argv.mlp_actor
    /\ model.cls = "CspnSAC"
    /\ LastModelOp = "CspnSAC.load"

\* ------------------------------------------------------------------- C8
KeptFromCheckpoint(m) ==
    /\ m.ent_coef = StoredModel.ent_coef
    /\ m.learning_rate = StoredModel.learning_rate
    /\ m.device = StoredModel.device
    /\ m.buffer_size = StoredModel.buffer_size
    /\ m.verbose = StoredModel.verbose
    /\ m.cspn = StoredModel.cspn

\* C8: model.learn gets reset_num_timesteps = false exactly when
\* --model_path is given; a loaded model has its seed set to the loop seed
\* and its learning_starts to the command line's, and keeps the
\* checkpoint's ent_coef, learning_rate, device, buffer_size and CSPN
\* hyperparameters.
C8_ResumeSemantics ==
    \A k \in 1..Len(learn_calls) :
        LET c == learn_calls[k] IN
        /\ c.args.reset_num_timesteps = ~ModelPathGiven
        /\ ModelPathGiven =>
              /\ c.model.seed = argv.seed[c.i]
              /\ c.model.learning_starts = argv.learning_starts
              /\ KeptFromCheckpoint(c.model)

\* The training loop was called on a loaded checkpoint whose stored values
\* differ from the command line's.
C8_Witness ==
    /\ Len(learn_calls) > 0
    /\ ModelPathGiven
    /\ learn_calls[1].args.reset_num_timesteps = FALSE
    /\ learn_calls[1].model.learning_rate # argv.learning_rate
    /\ learn_calls[1].model.ent_coef # argv.ent_coef
    /\ learn_calls[1].model.learning_starts # StoredModel.learning_starts

\* ------------------------------------------------------------------- C9
TriggerDefined == \A x \in Steps : record_video_trigger(args, x) # "ZeroDivisionError"

SaveFreqPositive ==
    \A k \in 1..Len(learn_calls) :
        learn_calls[k].args.callback.cls = "WandbCallback"
          => learn_calls[k].args.callback.model_save_freq > 0

\* C9 as stated: in every configuration that passes validation, whatever
\* the integers given, the effective save_interval is strictly positive
\* when the seed loop starts, so the video trigger never divides by zero
\* and the model save frequency is positive.
C9_AlwaysPositive ==
    (InLoop /\ PassesValidation) =>
        (save_interval > 0 /\ TriggerDefined /\ SaveFreqPositive)

\* C9 amended: in every configuration that passes validation with
\* --timesteps > 0 and --save_interval omitted or not negative, the
\* effective save_interval is a strictly positive divisor of timesteps, so
\* the trigger is defined at every step and the save frequency positive;
\* and whenever --timesteps is not 0 the effective save_interval is not 0.
C9_PositiveForPositiveArgs ==
    /\ (InLoop /\ argv.timesteps > 0
          /\ (IsNone(argv.save_interval) \/ argv.save_interval[1] >= 0)) =>
            /\ save_interval >= 1
            /\ save_interval =< args.timesteps
            /\ IsMultiple(args.timesteps, save_interval)
            /\ TriggerDefined
            /\ SaveFreqPositive
    /\ (InLoop /\ argv.timesteps # 0) => (save_interval # 0 /\ TriggerDefined)

\* The seed loop runs on a given save_interval that properly divides timesteps.
C9_Witness ==
    /\ pc = "run_finish"
    /\ ~IsNone(argv.save_interval)
    /\ argv.save_interval[1] > 0
    /\ argv.timesteps > argv.save_interval[1]
    /\ callback.cls = "WandbCallback"

\* ------------------------------------------------------------------ C10
\* C10: learn is true iff --timesteps is not 0, and model.learn is called
\* only when learn is true.
C10_LearnFlagGoverns ==
    /\ learn # None => (learn[1] <=> argv.timesteps # 0)
    /\ Len(learn_calls) > 0 => learn = Some(TRUE)
====
